---- MODULE Spec2Model ----
(***************************************************************************)
(* Planet simulator: the N-body engine of simulator.js (Body, Simulation)  *)
(* and the driver of main.js (selection, edit panel, frame loop).          *)
(*                                                                         *)
(* Numbers.  The program computes in IEEE doubles.  Here every quantity is *)
(* an integer multiple of one grid unit (a fixed-point number): +, - and * *)
(* are exact, and a division or a square root rounds its result to the     *)
(* grid, as the double operations round to the nearest representable       *)
(* value.  The grid units are 1.5e8 m for lengths (so that physRadius =    *)
(* radius * 1.5e8 m is "radius" grid units and 1 AU is about 1000) and one *)
(* hour for times (so that the loop's simDt = dtSlider * 3600 s is         *)
(* "dtSlider" units).  G is given in these units.                          *)
(*                                                                         *)
(* Objects.  A Body is a record; its identity is its id.  sim.bodies is    *)
(* the sequence of the records, selectedBody is an id (None for null).     *)
(* Fields that no operation reads back (color, jojo, engineOn, forceMag,   *)
(* the event's text) are left out.                                         *)
(*                                                                         *)
(* Non-finite values.  The one division whose divisor can be zero is the   *)
(* division by Mt in _merge.  It gives NaN or an infinity, which no grid   *)
(* value stands for: the body's nonFinite field records it, the numeric    *)
(* fields x, y, vx, vy of such a body are placeholders, every comparison   *)
(* with them is false and every sum with them is non-finite again, as      *)
(* IEEE arithmetic has it.                                                 *)
(***************************************************************************)
EXTENDS Integers, Sequences, FiniteSets, TLC

\* ------------------------------------------------------------- constants
\* simulator.js:3, in grid units
G == 1000
\* simulator.js:4, in grid units of 1.5e8 m
AU == 1000
\* simulator.js:49: physRadius = radius * 1.5e8 m, one grid unit per display px
PhysRadiusPerPx == 1
\* simulator.js:66 (600 in the program; scaled to the model's horizon)
MaxTrailLength == 2
\* simulator.js:136: 4 * 365.25 * 86400 s, scaled to the model's horizon
Retention == 3

\* ---------------------------------------------------------------- bounds
\* Body() may be called while nextId <= MaxId
MaxId == 3
\* the driver places a body while nextId <= MaxPlaced
MaxPlaced == 2
\* a caller may call step() while time + dt <= MaxTime
MaxTime == 4
\* the loop may call step() while time + dt <= MaxLoopTime
MaxLoopTime == 4
MaxLongTime == 6
\* a kick is applied while the velocity stays within this
MaxVel == 1
\* step() may be called while every body is within this distance of the origin
MaxPos == 40

None == 0

\* ------------------------------------------------------------ arithmetic
Abs(n) == IF n < 0 THEN -n ELSE n

Max(a, b) == IF a >= b THEN a ELSE b

\* a / b rounded to the nearest grid value (half up); b # 0
RDiv(a, b) ==
  IF b > 0 THEN (2 * a + b) \div (2 * b)
  ELSE (2 * (-a) + (-b)) \div (2 * (-b))

\* Math.sqrt, rounded down to the grid
RECURSIVE Sqrt(_)
Sqrt(n) ==
  IF n < 2 THEN n
  ELSE LET s == 2 * Sqrt(n \div 4)
       IN IF (s + 1) * (s + 1) <= n THEN s + 1 ELSE s

\* Math.ceil(Math.cbrt(n)) for n >= 0
CeilCbrt(n) == CHOOSE c \in 0..n : c * c * c >= n /\ (c = 0 \/ (c - 1) * (c - 1) * (c - 1) < n)

\* Math.hypot(dx, dy) squared; hypot(dx, dy) < r is Hypot2(dx, dy) < r * r for r > 0
Hypot2(dx, dy) == dx * dx + dy * dy

\* 0.5 * a * h
HalfKick(a, h) == RDiv(a * h, 2)

RECURSIVE Sum(_, _)
Sum(f, n) == IF n = 0 THEN 0 ELSE f[n] + Sum(f, n - 1)

\* Array.prototype.filter by a set of kept indices, order preserved
RECURSIVE KeepIdx(_, _, _)
KeepIdx(s, keep, i) ==
  IF i > Len(s) THEN << >>
  ELSE (IF i \in keep THEN << s[i] >> ELSE << >>) \o KeepIdx(s, keep, i + 1)

Filter(s, keep) == KeepIdx(s, keep, 1)

\* the array with every element evaluated
Arr(f) == SubSeq(f, 1, Len(f))

\* ------------------------------------------------------------------ Body
\* new Body(name, x, y, vx, vy, mass, radius, color) with this.id = id
Body(id, name, x, y, vx, vy, mass, radius) ==
  [ id |-> id, name |-> name, x |-> x, y |-> y, vx |-> vx, vy |-> vy,
    mass |-> mass, radius |-> radius, ax |-> 0, ay |-> 0,
    vxh |-> vx, vyh |-> vy, leapReady |-> FALSE, trail |-> << >>,
    physRadius |-> radius * PhysRadiusPerPx, fx_ext |-> 0, fy_ext |-> 0,
    nonFinite |-> FALSE ]

\* bodies.forEach(bd => { bd._leapReady = false; })
Invalidate(bs) == Arr([ i \in 1..Len(bs) |-> [ bs[i] EXCEPT !.leapReady = FALSE ] ])

\* an addBody that pushes the body twice
addBodyTwice(bs, b) == Invalidate(Append(Append(bs, b), b))

\* Simulation.addBody
addBody(bs, b) == Invalidate(Append(bs, b))

\* removeById that leaves the readiness flags as they are
removeByIdKeepReady(bs, id) == Filter(bs, { i \in 1..Len(bs) : bs[i].id # id })

\* Simulation.removeById
removeById(bs, id) == Invalidate(Filter(bs, { i \in 1..Len(bs) : bs[i].id # id }))

\* --------------------------------------------------------- accelerations
\* the shared pair terms gx, gy of the inner loop, for bi before bj
PairG(bi, bj, eps2) ==
  LET dx == bj.x - bi.x
      dy == bj.y - bi.y
      r2 == dx * dx + dy * dy + eps2
      r  == Sqrt(r2)
      g  == RDiv(G, r2 * r)
  IN  [ gx |-> g * dx, gy |-> g * dy ]

\* accelerations whose reaction on the later body of a pair is weighted by that body's
\* own mass
accumulateAccelsOwnMass(bs, soft) ==
  LET eps2 == soft * soft
      n    == Len(bs)
      gxOn(i) == Sum([ j \in 1..n |->
                   IF j > i THEN bs[j].mass * PairG(bs[i], bs[j], eps2).gx
                   ELSE IF j < i THEN - (bs[i].mass * PairG(bs[j], bs[i], eps2).gx)
                   ELSE 0 ], n)
      gyOn(i) == Sum([ j \in 1..n |->
                   IF j > i THEN bs[j].mass * PairG(bs[i], bs[j], eps2).gy
                   ELSE IF j < i THEN - (bs[i].mass * PairG(bs[j], bs[i], eps2).gy)
                   ELSE 0 ], n)
      ext(b)  == b.fx_ext # 0 \/ b.fy_ext # 0
  IN  Arr([ i \in 1..n |->
        [ bs[i] EXCEPT
            !.ax = gxOn(i) + (IF ext(bs[i]) THEN RDiv(bs[i].fx_ext, bs[i].mass) ELSE 0),
            !.ay = gyOn(i) + (IF ext(bs[i]) THEN RDiv(bs[i].fy_ext, bs[i].mass) ELSE 0) ] ])

\* Simulation._accumulateAccels: ax, ay of every body
accumulateAccels(bs, soft) ==
  LET eps2 == soft * soft
      n    == Len(bs)
      gxOn(i) == Sum([ j \in 1..n |->
                   IF j > i THEN bs[j].mass * PairG(bs[i], bs[j], eps2).gx
                   ELSE IF j < i THEN - (bs[j].mass * PairG(bs[j], bs[i], eps2).gx)
                   ELSE 0 ], n)
      gyOn(i) == Sum([ j \in 1..n |->
                   IF j > i THEN bs[j].mass * PairG(bs[i], bs[j], eps2).gy
                   ELSE IF j < i THEN - (bs[j].mass * PairG(bs[j], bs[i], eps2).gy)
                   ELSE 0 ], n)
      ext(b)  == b.fx_ext # 0 \/ b.fy_ext # 0
  IN  Arr([ i \in 1..n |->
        [ bs[i] EXCEPT
            !.ax = gxOn(i) + (IF ext(bs[i]) THEN RDiv(bs[i].fx_ext, bs[i].mass) ELSE 0),
            !.ay = gyOn(i) + (IF ext(bs[i]) THEN RDiv(bs[i].fy_ext, bs[i].mass) ELSE 0) ] ])

\* ------------------------------------------------------------ integrator
AllReady(bs) == \A i \in 1..Len(bs) : bs[i].leapReady

AnyNonFinite(bs) == \E i \in 1..Len(bs) : bs[i].nonFinite

\* _leapfrogStep with a non-finite body: its position stays non-finite, and through
\* dx, dy of _accumulateAccels so does every other body's
spreadNonFinite(bs) ==
  Arr([ i \in 1..Len(bs) |-> [ bs[i] EXCEPT !.nonFinite = TRUE, !.leapReady = TRUE ] ])

\* Simulation._leapfrogStep
leapfrogStep(bs, h, soft) ==
  IF AnyNonFinite(bs) THEN spreadNonFinite(bs) ELSE
  LET n == Len(bs)
      fresh == accumulateAccels(bs, soft)
      kicked == IF AllReady(bs) THEN bs
                ELSE Arr([ i \in 1..n |->
                       [ fresh[i] EXCEPT !.vxh = fresh[i].vx + HalfKick(fresh[i].ax, h),
                                         !.vyh = fresh[i].vy + HalfKick(fresh[i].ay, h),
                                         !.leapReady = TRUE ] ])
      drifted == Arr([ i \in 1..n |->
                   [ kicked[i] EXCEPT !.x = @ + kicked[i].vxh * h,
                                      !.y = @ + kicked[i].vyh * h ] ])
      acc == accumulateAccels(drifted, soft)
  IN  Arr([ i \in 1..n |->
        LET b   == acc[i]
            nvx == b.vxh + HalfKick(b.ax, h)
            nvy == b.vyh + HalfKick(b.ay, h)
        IN  [ b EXCEPT !.vx = nvx, !.vy = nvy,
                       !.vxh = nvx + HalfKick(b.ax, h),
                       !.vyh = nvy + HalfKick(b.ay, h) ] ])

\* ---- a collection that holds a Body object more than once
\* bodies holds references: the entries with one id are one object, and the loops over
\* this.bodies visit that object once per entry. accumulateAccels and leapfrogStep above
\* are these loops for a collection of different objects.
Copies(bs, i) == Cardinality({ k \in 1..Len(bs) : bs[k].id = bs[i].id })

\* Simulation._accumulateAccels: b.ax += ..., b.ay += ... land on the object, so the
\* object of entry i collects the terms acc[k] of all of its entries k
ShareAccels(bs, acc) ==
  Arr([ i \in 1..Len(bs) |->
    [ acc[i] EXCEPT
        !.ax = Sum([ k \in 1..Len(bs) |-> IF bs[k].id = bs[i].id THEN acc[k].ax ELSE 0 ], Len(bs)),
        !.ay = Sum([ k \in 1..Len(bs) |-> IF bs[k].id = bs[i].id THEN acc[k].ay ELSE 0 ], Len(bs)) ] ])

\* Simulation._accumulateAccels (a pair of entries of one object has dx = dy = 0 and
\* adds nothing)
accumulateAccelsShared(bs, soft) == ShareAccels(bs, accumulateAccels(bs, soft))

\* Simulation._leapfrogStep: the first half kick assigns, so it is the same for every
\* entry of an object; the drift and the closing kick add, once per entry
leapfrogStepShared(bs, h, soft) ==
  IF AnyNonFinite(bs) THEN spreadNonFinite(bs) ELSE
  LET n == Len(bs)
      fresh == accumulateAccelsShared(bs, soft)
      kicked == IF AllReady(bs) THEN bs
                ELSE Arr([ i \in 1..n |->
                       [ fresh[i] EXCEPT !.vxh = fresh[i].vx + HalfKick(fresh[i].ax, h),
                                         !.vyh = fresh[i].vy + HalfKick(fresh[i].ay, h),
                                         !.leapReady = TRUE ] ])
      drifted == Arr([ i \in 1..n |->
                   [ kicked[i] EXCEPT !.x = @ + Copies(bs, i) * kicked[i].vxh * h,
                                      !.y = @ + Copies(bs, i) * kicked[i].vyh * h ] ])
      acc == accumulateAccelsShared(drifted, soft)
  IN  Arr([ i \in 1..n |->
        LET b   == acc[i]
            c   == Copies(bs, i)
            nvx == b.vxh + (2 * c - 1) * HalfKick(b.ax, h)
            nvy == b.vyh + (2 * c - 1) * HalfKick(b.ay, h)
        IN  [ b EXCEPT !.vx = nvx, !.vy = nvy,
                       !.vxh = nvx + HalfKick(b.ax, h),
                       !.vyh = nvy + HalfKick(b.ay, h) ] ])

\* step: for (let s = 0; s < subSteps; s++) this._leapfrogStep(h), with n = subSteps
RECURSIVE LeapfrogSteps(_, _, _, _)
LeapfrogSteps(bs, h, soft, n) ==
  IF n = 0 THEN bs ELSE LeapfrogSteps(leapfrogStep(bs, h, soft), h, soft, n - 1)

\* ---------------------------------------------------------------- trails
\* a trail that keeps every sample
recordTrailUnbounded(b) ==
  LET tl   == b.trail
      minD == RDiv(AU, 1000)
      far  == Len(tl) = 0
              \/ (~b.nonFinite /\ Hypot2(b.x - tl[Len(tl)].x, b.y - tl[Len(tl)].y) > minD * minD)
  IN  IF far THEN [ b EXCEPT !.trail = Append(tl, [ x |-> b.x, y |-> b.y ]) ] ELSE b

\* step: "Record trails once per real frame", for one body
recordTrail(b) ==
  LET tl   == b.trail
      minD == RDiv(AU, 1000)
      far  == Len(tl) = 0
              \/ (~b.nonFinite /\ Hypot2(b.x - tl[Len(tl)].x, b.y - tl[Len(tl)].y) > minD * minD)
      pushed == Append(tl, [ x |-> b.x, y |-> b.y ])
  IN  IF far
      THEN [ b EXCEPT !.trail = IF Len(pushed) > MaxTrailLength THEN Tail(pushed) ELSE pushed ]
      ELSE b

recordTrails(bs) == Arr([ i \in 1..Len(bs) |-> recordTrail(bs[i]) ])

\* ---------------------------------------------------------------- merges
\* the test of _handleMerges: Math.hypot(b.x - a.x, b.y - a.y) < a.physRadius + b.physRadius
Overlap(a, b) ==
  /\ ~a.nonFinite /\ ~b.nonFinite
  /\ a.physRadius + b.physRadius > 0
  /\ Hypot2(b.x - a.x, b.y - a.y) < (a.physRadius + b.physRadius) * (a.physRadius + b.physRadius)

OverlapPairs(bs) ==
  { p \in (1..Len(bs)) \X (1..Len(bs)) : p[1] < p[2] /\ Overlap(bs[p[1]], bs[p[2]]) }

\* the first pair the nested scan of _handleMerges finds (i ascending, then j)
FirstOverlap(bs) ==
  CHOOSE p \in OverlapPairs(bs) :
    \A q \in OverlapPairs(bs) : p[1] < q[1] \/ (p[1] = q[1] /\ p[2] <= q[2])

\* the test with > for >=
aIsBigStrict(a, b) == a.mass > b.mass

\* _merge: the test a.mass >= b.mass of big and small
aIsBig(a, b) == a.mass >= b.mass

\* _merge: which of bodies[i], bodies[j] survives
Big(a, b) == IF aIsBig(a, b) THEN a ELSE b

Small(a, b) == IF aIsBig(a, b) THEN b ELSE a

\* a survivor that keeps its own mass
MergedKeepMass(a, b) ==
  [ Big(a, b) EXCEPT !.trail = << >>,
                     !.physRadius = RDiv(Max(a.physRadius, b.physRadius) * 106, 100) ]

\* _merge: the survivor's new fields
Merged(a, b) ==
  LET Mt  == a.mass + b.mass
      big == Big(a, b)
      small == Small(a, b)
      Quot(p, old) == IF Mt = 0 THEN old ELSE RDiv(p, Mt)
  IN  [ big EXCEPT
          !.x = Quot(a.mass * a.x + b.mass * b.x, @),
          !.y = Quot(a.mass * a.y + b.mass * b.y, @),
          !.vx = Quot(a.mass * a.vx + b.mass * b.vx, @),
          !.vy = Quot(a.mass * a.vy + b.mass * b.vy, @),
          !.nonFinite = (Mt = 0),
          !.mass = Mt,
          !.radius = CeilCbrt(a.radius * a.radius * a.radius + b.radius * b.radius * b.radius),
          !.physRadius = RDiv(Max(a.physRadius, b.physRadius) * 106, 100),
          !.trail = << >>,
          !.fx_ext = big.fx_ext + small.fx_ext,
          !.fy_ext = big.fy_ext + small.fy_ext ]

\* _merge: the flash event
MergeEvent(a, b, now) ==
  [ x |-> Merged(a, b).x, y |-> Merged(a, b).y, simTime |-> now,
    bigName |-> Big(a, b).name, smallName |-> Small(a, b).name, stamped |-> FALSE ]

\* a _merge that leaves the smaller body in the collection
mergeKeepSmall(bs, i, j) ==
  LET a == bs[i]
      b == bs[j]
      big == Big(a, b)
  IN  Invalidate(Arr([ k \in 1..Len(bs) |-> IF bs[k].id = big.id THEN Merged(a, b) ELSE bs[k] ]))

\* _merge: the collection afterwards
merge(bs, i, j) ==
  LET a == bs[i]
      b == bs[j]
      small == Small(a, b)
      big   == Big(a, b)
      upd   == Arr([ k \in 1..Len(bs) |-> IF bs[k].id = big.id THEN Merged(a, b) ELSE bs[k] ])
  IN  Invalidate(Filter(upd, { k \in 1..Len(bs) : bs[k].id # small.id }))

\* a log that is never pruned
expireNone(evs, now) == evs

\* step: "Expire old flash events"
expire(evs, now) ==
  Filter(evs, { k \in 1..Len(evs) : now - evs[k].simTime < Retention })

\* ----------------------------------------------------------------- state
VARIABLES
  bodies,            \* sim.bodies
  time,              \* sim.time
  softening,         \* sim.softening
  mergeOnCollision,  \* sim.mergeOnCollision
  mergeEvents,       \* sim.mergeEvents
  newMergeEvents,    \* sim.newMergeEvents
  nextId,            \* _nextId
  pool,              \* Body objects constructed by the caller and not yet added
  pc,                \* where the running step() call is: "idle" when none runs
  call,              \* the running (or last) step() call: dt, subSteps, h, s, caller
  selectedBody,      \* main.js selectedBody: an id, or None
  paused,            \* main.js paused
  dtSlider,          \* dtSlider.value
  substepsSlider,    \* substepsSlider.value
  lastOp             \* the operation that produced this state

simVars == << bodies, time, softening, mergeOnCollision, mergeEvents, newMergeEvents >>

driverVars == << selectedBody, paused, dtSlider, substepsSlider >>

vars == << bodies, time, softening, mergeOnCollision, mergeEvents, newMergeEvents,
           nextId, pool, pc, call, selectedBody, paused, dtSlider, substepsSlider, lastOp >>

\* --------------------------------------------------------- input domains
DtChoices == {2, 4}

SubChoices == {1, 2}

\* the arguments of new Body(...) a caller passes: x, y, vx, vy, mass, radius
BodyInputs ==
  { [ x |-> 0, y |-> 0, vx |-> 0, vy |-> 0, mass |-> 1, radius |-> 3 ],
    [ x |-> 2, y |-> 0, vx |-> 0, vy |-> 0, mass |-> 1, radius |-> 3 ],
    [ x |-> 4, y |-> 3, vx |-> 1, vy |-> 0, mass |-> 2, radius |-> 10 ] }

NoCall == [ dt |-> 0, subSteps |-> 0, h |-> 0, s |-> 0, caller |-> "none" ]

\* new Simulation() and the driver's top-level lets: the state at module load and
\* after resetSim (the preset that init() then loads is not modelled)
Init ==
  /\ bodies = << >>
  /\ time = 0
  /\ softening = RDiv(AU, 100)
  /\ mergeOnCollision = TRUE
  /\ mergeEvents = << >>
  /\ newMergeEvents = << >>
  /\ nextId = 1
  /\ pool = {}
  /\ pc = "idle"
  /\ call = NoCall
  /\ selectedBody = None
  /\ paused = FALSE
  /\ dtSlider = 2
  /\ substepsSlider = 1
  /\ lastOp = "init"

Ids(bs) == { bs[i].id : i \in 1..Len(bs) }

\* the dt of the callers that make every step() call with one dt
LongDt == 2

\* how far the callers of step() let the simulated time run
Horizon(caller) ==
  CASE caller = "loop" -> MaxLoopTime
    [] caller = "long" -> MaxLongTime
    [] caller = "once" -> LongDt
    [] OTHER -> MaxTime

\* an entry that takes the whole dt for the size of a sub-step
StepEnterWholeDt(dt, subs, caller) ==
  /\ pc = "idle"
  /\ Len(bodies) > 0
  /\ time + dt <= Horizon(caller)
  /\ \A i \in 1..Len(bodies) : Abs(bodies[i].x) <= MaxPos /\ Abs(bodies[i].y) <= MaxPos
  /\ pc' = "leap"
  /\ call' = [ dt |-> dt, subSteps |-> subs, h |-> dt, s |-> 0, caller |-> caller ]
  /\ lastOp' = "stepEnter"
  /\ UNCHANGED << simVars, nextId, pool, driverVars >>

\* ------------------------------------------------------ step(), in steps
\* step: the guard on an empty collection, h = dt / subSteps, entry to the loop
StepEnter(dt, subs, caller) ==
  /\ pc = "idle"
  /\ Len(bodies) > 0
  /\ time + dt <= Horizon(caller)
  /\ \A i \in 1..Len(bodies) : Abs(bodies[i].x) <= MaxPos /\ Abs(bodies[i].y) <= MaxPos
  /\ pc' = "leap"
  /\ call' = [ dt |-> dt, subSteps |-> subs, h |-> RDiv(dt, subs), s |-> 0, caller |-> caller ]
  /\ lastOp' = "stepEnter"
  /\ UNCHANGED << simVars, nextId, pool, driverVars >>

\* a loop that records the trails in every sub-step
LeapfrogSubTrails ==
  /\ pc = "leap"
  /\ call.s < call.subSteps
  /\ bodies' = recordTrails(leapfrogStep(bodies, call.h, softening))
  /\ call' = [ call EXCEPT !.s = @ + 1 ]
  /\ lastOp' = "leapfrog"
  /\ UNCHANGED << time, softening, mergeOnCollision, mergeEvents, newMergeEvents,
                  nextId, pool, pc, driverVars >>

\* step: one iteration of "for (s < subSteps) this._leapfrogStep(h)"
LeapfrogSub ==
  /\ pc = "leap"
  /\ call.s < call.subSteps
  /\ bodies' = leapfrogStep(bodies, call.h, softening)
  /\ call' = [ call EXCEPT !.s = @ + 1 ]
  /\ lastOp' = "leapfrog"
  /\ UNCHANGED << time, softening, mergeOnCollision, mergeEvents, newMergeEvents,
                  nextId, pool, pc, driverVars >>

\* a step that runs the merge pass whatever the flag says
AfterTrailsMerge(flag) == "merge"

\* step: if (this.mergeOnCollision) this._handleMerges()
AfterTrails(flag) == IF flag THEN "merge" ELSE "expire"

\* a step that takes dt off the time
StepTrailsBackwards ==
  /\ pc = "leap"
  /\ call.s >= call.subSteps
  /\ bodies' = recordTrails(bodies)
  /\ time' = time - call.dt
  /\ pc' = AfterTrails(mergeOnCollision)
  /\ lastOp' = "trails"
  /\ UNCHANGED << softening, mergeOnCollision, mergeEvents, newMergeEvents,
                  nextId, pool, call, driverVars >>

\* step: after the loop, record the trails and advance the time
StepTrails ==
  /\ pc = "leap"
  /\ call.s >= call.subSteps
  /\ bodies' = recordTrails(bodies)
  /\ time' = time + call.dt
  /\ pc' = AfterTrails(mergeOnCollision)
  /\ lastOp' = "trails"
  /\ UNCHANGED << softening, mergeOnCollision, mergeEvents, newMergeEvents,
                  nextId, pool, call, driverVars >>

\* a merge that records its event in the persistent log only
MergeOneLogOnly ==
  /\ pc = "merge"
  /\ OverlapPairs(bodies) # {}
  /\ LET p  == FirstOverlap(bodies)
         ev == MergeEvent(bodies[p[1]], bodies[p[2]], time)
     IN  /\ bodies' = merge(bodies, p[1], p[2])
         /\ mergeEvents' = Append(mergeEvents, ev)
  /\ lastOp' = "merge"
  /\ UNCHANGED << time, softening, mergeOnCollision, newMergeEvents, nextId, pool, pc, call,
                  driverVars >>

\* _handleMerges: a scan that finds an overlapping pair, and its _merge
MergeOne ==
  /\ pc = "merge"
  /\ OverlapPairs(bodies) # {}
  /\ LET p  == FirstOverlap(bodies)
         ev == MergeEvent(bodies[p[1]], bodies[p[2]], time)
     IN  /\ bodies' = merge(bodies, p[1], p[2])
         /\ mergeEvents' = Append(mergeEvents, ev)
         /\ newMergeEvents' = Append(newMergeEvents, ev)
  /\ lastOp' = "merge"
  /\ UNCHANGED << time, softening, mergeOnCollision, nextId, pool, pc, call, driverVars >>

\* a merge loop that also ends after any merge, without a new scan
MergeDoneNoRescan ==
  /\ pc = "merge"
  /\ (OverlapPairs(bodies) = {} \/ lastOp = "merge")
  /\ pc' = "expire"
  /\ lastOp' = "mergeDone"
  /\ UNCHANGED << simVars, nextId, pool, call, driverVars >>

\* _handleMerges: the full scan that finds no pair ends the loop
MergeDone ==
  /\ pc = "merge"
  /\ OverlapPairs(bodies) = {}
  /\ pc' = "expire"
  /\ lastOp' = "mergeDone"
  /\ UNCHANGED << simVars, nextId, pool, call, driverVars >>

\* a return that prunes the queue of new events with the log
StepExpireBoth ==
  /\ pc = "expire"
  /\ mergeEvents' = expire(mergeEvents, time)
  /\ newMergeEvents' = expire(newMergeEvents, time)
  /\ pc' = IF call.caller = "loop" THEN "drain" ELSE "idle"
  /\ call' = IF call.caller = "loop" THEN call ELSE NoCall
  /\ lastOp' = "step"
  /\ UNCHANGED << bodies, time, softening, mergeOnCollision, nextId, pool, driverVars >>

\* step: expire old flash events, return to the caller
StepExpire ==
  /\ pc = "expire"
  /\ mergeEvents' = expire(mergeEvents, time)
  /\ pc' = IF call.caller = "loop" THEN "drain" ELSE "idle"
  /\ call' = IF call.caller = "loop" THEN call ELSE NoCall
  /\ lastOp' = "step"
  /\ UNCHANGED << bodies, time, softening, mergeOnCollision, newMergeEvents,
                  nextId, pool, driverVars >>

StepInside == LeapfrogSub \/ StepTrails \/ MergeOne \/ MergeDone \/ StepExpire

\* ------------------------------------------------- the engine's interface
\* a caller constructs a Body
NewBody(name, x, y, vx, vy, mass, radius) ==
  /\ pc = "idle"
  /\ nextId <= MaxId
  /\ pool' = pool \cup { Body(nextId, name, x, y, vx, vy, mass, radius) }
  /\ nextId' = nextId + 1
  /\ lastOp' = "new"
  /\ UNCHANGED << simVars, pc, call, driverVars >>

\* sim.addBody(b) for a body the caller holds
AddBody(b) ==
  /\ pc = "idle"
  /\ bodies' = addBody(bodies, b)
  /\ pool' = pool \ { b }
  /\ lastOp' = "addBody"
  /\ UNCHANGED << time, softening, mergeOnCollision, mergeEvents, newMergeEvents,
                  nextId, pc, call, driverVars >>

\* sim.removeById(id)
RemoveById(id) ==
  /\ pc = "idle"
  /\ bodies' = removeById(bodies, id)
  /\ lastOp' = "removeById"
  /\ UNCHANGED << time, softening, mergeOnCollision, mergeEvents, newMergeEvents,
                  nextId, pool, pc, call, driverVars >>

\* a clear() that puts the softening back to its default
ClearSoftening ==
  /\ pc = "idle"
  /\ bodies' = << >>
  /\ mergeEvents' = << >>
  /\ newMergeEvents' = << >>
  /\ time' = 0
  /\ softening' = RDiv(AU, 100)
  /\ lastOp' = "clear"
  /\ UNCHANGED << mergeOnCollision, nextId, pool, pc, call, driverVars >>

\* sim.clear()
Clear ==
  /\ pc = "idle"
  /\ bodies' = << >>
  /\ mergeEvents' = << >>
  /\ newMergeEvents' = << >>
  /\ time' = 0
  /\ lastOp' = "clear"
  /\ UNCHANGED << softening, mergeOnCollision, nextId, pool, pc, call, driverVars >>

\* a step() that advances the time of an empty simulation
StepEmptyAdvance(dt, subs) ==
  /\ pc = "idle"
  /\ Len(bodies) = 0
  /\ time + dt <= MaxTime
  /\ time' = time + dt
  /\ lastOp' = "step"
  /\ UNCHANGED << bodies, softening, mergeOnCollision, mergeEvents, newMergeEvents,
                  nextId, pool, pc, call, driverVars >>

\* sim.step(dt, subSteps) on an empty collection returns at once
StepEmpty(dt, subs) ==
  /\ pc = "idle"
  /\ Len(bodies) = 0
  /\ lastOp' = "step"
  /\ UNCHANGED << simVars, nextId, pool, pc, call, driverVars >>

NameOf(id) == << "B1", "B2", "B3", "B4", "B5" >>[id]

NextEngine ==
  \/ \E a \in BodyInputs :
       NewBody(NameOf(nextId), a.x, a.y, a.vx, a.vy, a.mass, a.radius)
  \/ \E b \in pool : AddBody(b)
  \/ \E id \in 1..MaxId : RemoveById(id)
  \/ Clear
  \/ \E dt \in DtChoices, subs \in SubChoices : StepEnter(dt, subs, "api")
  \/ \E dt \in DtChoices, subs \in SubChoices : StepEmpty(dt, subs)
  \/ StepInside

SpecEngine == Init /\ [][NextEngine]_vars

\* ---------------------------------------------------------------- driver
\* MASS_UNITS[unit].factor
MassFactor(unit) == [ kg |-> 1, ton |-> 1000 ][unit]

\* main.js getMassKg: (parseFloat(value) || 1) * factor; v is parseFloat's result
\* (a NaN takes the same branch as 0)
getMassKg(v, unit) == (IF v = 0 THEN 1 ELSE v) * MassFactor(unit)

\* x || d for a parsed number x
OrElse(x, d) == IF x = 0 THEN d ELSE x

\* the body selectedBody refers to is in sim.bodies
Selected(bs, sel) == { i \in 1..Len(bs) : bs[i].id = sel }

\* refreshInfoPanel: a selection that is not in sim.bodies is dropped
refreshInfoPanel(bs, sel) == IF sel = None \/ Selected(bs, sel) = {} THEN None ELSE sel

\* a field write through the selectedBody reference
SetSelected(bs, sel, new) ==
  Arr([ i \in 1..Len(bs) |-> IF bs[i].id = sel THEN new[i] ELSE bs[i] ])

\* the add panel as filled in (parsed): a name, a mass and a radius
PlaceForms == { [ name |-> "", mass |-> 0, radius |-> 3 ] }

\* the edit panel as filled in (parsed): parseFloat("-1") || 1 is -1
EditForms == { [ name |-> "Dio", mass |-> -1, radius |-> 3 ] }

\* click-drag gestures of the add mode: the placement point and the aimed velocity
Gestures ==
  { [ wx |-> 0, wy |-> 0, velX |-> 0, velY |-> 0 ],
    [ wx |-> 6, wy |-> 0, velX |-> 0, velY |-> 0 ] }

\* the velocity, kick and force fields (parsed, in grid units): x and y
VelFields == { << 0, 0 >> }

KickFields == { << 1, 0 >> }

ForceFields == { << 0, 2 >> }

\* the softening slider, in hundredths of an AU
SoftFields == { 1, 2 }

\* placeBody(wx, wy, velX, velY) on mouseup in add mode
PlaceBody(name, massField, radiusField, g) ==
  /\ pc = "idle"
  /\ nextId <= MaxPlaced
  /\ LET b == Body(nextId, IF name = "" THEN "Planet" ELSE name, g.wx, g.wy, g.velX, g.velY,
                   getMassKg(massField, "kg"), OrElse(radiusField, 6))
     IN  /\ bodies' = addBody(bodies, b)
         /\ selectedBody' = refreshInfoPanel(bodies', b.id)
  /\ nextId' = nextId + 1
  /\ lastOp' = "place"
  /\ UNCHANGED << time, softening, mergeOnCollision, mergeEvents, newMergeEvents,
                  pool, pc, call, paused, dtSlider, substepsSlider >>

\* mousedown on a body: selectBody(hit)
SelectBody(id) ==
  /\ pc = "idle"
  /\ id \in Ids(bodies)
  /\ selectedBody' = refreshInfoPanel(bodies, id)
  /\ lastOp' = "select"
  /\ UNCHANGED << simVars, nextId, pool, pc, call, paused, dtSlider, substepsSlider >>

\* mousedown on no body, or Escape
Deselect ==
  /\ pc = "idle"
  /\ selectedBody' = None
  /\ lastOp' = "deselect"
  /\ UNCHANGED << simVars, nextId, pool, pc, call, paused, dtSlider, substepsSlider >>

\* deleteSelected
DeleteSelected ==
  /\ pc = "idle"
  /\ selectedBody # None
  /\ bodies' = Filter(bodies, { i \in 1..Len(bodies) : bodies[i].id # selectedBody })
  /\ selectedBody' = None
  /\ lastOp' = "deleteSelected"
  /\ UNCHANGED << time, softening, mergeOnCollision, mergeEvents, newMergeEvents,
                  nextId, pool, pc, call, paused, dtSlider, substepsSlider >>

\* btn-apply-edit
ApplyEdit(name, massField, radiusField) ==
  /\ pc = "idle"
  /\ selectedBody # None
  /\ LET Upd(b) == [ b EXCEPT !.name = IF name = "" THEN b.name ELSE name,
                              !.mass = getMassKg(massField, "kg"),
                              !.radius = OrElse(radiusField, b.radius) ]
     IN  bodies' = SetSelected(bodies, selectedBody, [ i \in 1..Len(bodies) |-> Upd(bodies[i]) ])
  /\ selectedBody' = refreshInfoPanel(bodies', selectedBody)
  /\ lastOp' = "applyEdit"
  /\ UNCHANGED << time, softening, mergeOnCollision, mergeEvents, newMergeEvents,
                  nextId, pool, pc, call, paused, dtSlider, substepsSlider >>

\* btn-apply-vel
ApplyVel(vx, vy) ==
  /\ pc = "idle"
  /\ selectedBody # None
  /\ LET Upd(b) == [ b EXCEPT !.vx = vx, !.vy = vy ]
     IN  bodies' = SetSelected(bodies, selectedBody, [ i \in 1..Len(bodies) |-> Upd(bodies[i]) ])
  /\ selectedBody' = refreshInfoPanel(bodies', selectedBody)
  /\ lastOp' = "applyVel"
  /\ UNCHANGED << time, softening, mergeOnCollision, mergeEvents, newMergeEvents,
                  nextId, pool, pc, call, paused, dtSlider, substepsSlider >>

\* btnKick
Kick(dvx, dvy) ==
  /\ pc = "idle"
  /\ selectedBody # None
  /\ \A i \in Selected(bodies, selectedBody) :
       Abs(bodies[i].vx + dvx) <= MaxVel /\ Abs(bodies[i].vy + dvy) <= MaxVel
  /\ LET Upd(b) == [ b EXCEPT !.vx = @ + dvx, !.vy = @ + dvy ]
     IN  bodies' = SetSelected(bodies, selectedBody, [ i \in 1..Len(bodies) |-> Upd(bodies[i]) ])
  /\ selectedBody' = refreshInfoPanel(bodies', selectedBody)
  /\ lastOp' = "kick"
  /\ UNCHANGED << time, softening, mergeOnCollision, mergeEvents, newMergeEvents,
                  nextId, pool, pc, call, paused, dtSlider, substepsSlider >>

\* btn-engine-apply (btn-engine-off is the same write with 0, 0)
EngineApply(fx, fy) ==
  /\ pc = "idle"
  /\ selectedBody # None
  /\ LET Upd(b) == [ b EXCEPT !.fx_ext = fx, !.fy_ext = fy ]
     IN  bodies' = SetSelected(bodies, selectedBody, [ i \in 1..Len(bodies) |-> Upd(bodies[i]) ])
  /\ selectedBody' = refreshInfoPanel(bodies', selectedBody)
  /\ lastOp' = "engine"
  /\ UNCHANGED << time, softening, mergeOnCollision, mergeEvents, newMergeEvents,
                  nextId, pool, pc, call, paused, dtSlider, substepsSlider >>

\* softSlider input
SoftSlider(v) ==
  /\ pc = "idle"
  /\ softening' = RDiv(v * AU, 100)
  /\ lastOp' = "softening"
  /\ UNCHANGED << bodies, time, mergeOnCollision, mergeEvents, newMergeEvents,
                  nextId, pool, pc, call, driverVars >>

\* the dt and sub-steps sliders are moved
SetDt(v) ==
  /\ pc = "idle"
  /\ dtSlider' = v
  /\ lastOp' = "dt"
  /\ UNCHANGED << simVars, nextId, pool, pc, call, selectedBody, paused, substepsSlider >>

SetSubsteps(v) ==
  /\ pc = "idle"
  /\ substepsSlider' = v
  /\ lastOp' = "substeps"
  /\ UNCHANGED << simVars, nextId, pool, pc, call, selectedBody, paused, dtSlider >>

\* togglePause
TogglePause ==
  /\ pc = "idle"
  /\ paused' = ~paused
  /\ lastOp' = "pause"
  /\ UNCHANGED << simVars, nextId, pool, pc, call, selectedBody, dtSlider, substepsSlider >>

\* resetSim: sim = new Simulation(); selectedBody = null
ResetSim ==
  /\ pc = "idle"
  /\ bodies' = << >>
  /\ time' = 0
  /\ softening' = RDiv(AU, 100)
  /\ mergeOnCollision' = TRUE
  /\ mergeEvents' = << >>
  /\ newMergeEvents' = << >>
  /\ selectedBody' = None
  /\ lastOp' = "reset"
  /\ UNCHANGED << nextId, pool, pc, call, paused, dtSlider, substepsSlider >>

\* loop: the drain of newMergeEvents stamps each event with the wall time
Stamp(evs) == Arr([ k \in 1..Len(evs) |-> [ evs[k] EXCEPT !.stamped = TRUE ] ])

\* render: "purge old": events stamped more than 3 s of wall time ago are dropped;
\* the wall clock is not modelled, so any number k of the oldest events that were
\* stamped in an earlier frame may go
Purge(evs, k) == SubSeq(evs, k + 1, Len(evs))

StampedBefore(evs) == Cardinality({ k \in 1..Len(evs) : evs[k].stamped })

\* loop: after step(): drain, render, live stats
FrameRest(k) ==
  /\ k \in 0..StampedBefore(mergeEvents)
  /\ mergeEvents' = Purge(Stamp(mergeEvents), k)
  /\ newMergeEvents' = IF paused THEN newMergeEvents ELSE << >>
  /\ pc' = "idle"
  /\ call' = NoCall
  /\ lastOp' = "loop"
  /\ UNCHANGED << bodies, time, softening, mergeOnCollision, nextId, pool, driverVars >>

\* loop(ts), not paused, bodies to step: sim.step(simDt, subs)
LoopStep == ~paused /\ StepEnter(dtSlider, substepsSlider, "loop")

\* loop(ts), the rest of the frame once step() has returned
LoopRest == pc = "drain" /\ \E k \in 0..Len(mergeEvents) : FrameRest(k)

\* loop(ts) while paused, or with no body (step() returns at once)
LoopIdle ==
  /\ pc = "idle"
  /\ paused \/ Len(bodies) = 0
  /\ \E k \in 0..Len(mergeEvents) : FrameRest(k)

Next ==
  \/ \E f \in PlaceForms, g \in Gestures : PlaceBody(f.name, f.mass, f.radius, g)
  \/ \E id \in 1..MaxId : SelectBody(id)
  \/ Deselect
  \/ DeleteSelected
  \/ \E f \in EditForms : ApplyEdit(f.name, f.mass, f.radius)
  \/ \E v \in VelFields : ApplyVel(v[1], v[2])
  \/ \E v \in KickFields : Kick(v[1], v[2])
  \/ \E v \in ForceFields : EngineApply(v[1], v[2])
  \/ TogglePause
  \/ ResetSim
  \/ LoopStep
  \/ StepInside
  \/ LoopRest
  \/ LoopIdle

Spec == Init /\ [][Next]_vars

\* the driver with the simulation sliders: placing, the sliders and the frames
NextSliders ==
  \/ \E f \in PlaceForms, g \in Gestures : PlaceBody(f.name, f.mass, f.radius, g)
  \/ \E v \in SoftFields : SoftSlider(v)
  \/ \E v \in DtChoices : SetDt(v)
  \/ \E v \in SubChoices : SetSubsteps(v)
  \/ LoopStep
  \/ StepInside
  \/ LoopRest
  \/ LoopIdle

SpecSliders == Init /\ [][NextSliders]_vars

\* a caller that runs whole steps of one size for longer
NextLong ==
  \/ \E a \in BodyInputs :
       NewBody(NameOf(nextId), a.x, a.y, a.vx, a.vy, a.mass, a.radius)
  \/ \E b \in pool : AddBody(b)
  \/ \E id \in 1..MaxId : RemoveById(id)
  \/ Clear
  \/ StepEnter(LongDt, 1, "long")
  \/ StepInside

SpecLong == Init /\ [][NextLong]_vars

\* a caller that sets sim.softening between its calls
NextSoft ==
  \/ \E a \in BodyInputs :
       NewBody(NameOf(nextId), a.x, a.y, a.vx, a.vy, a.mass, a.radius)
  \/ \E b \in pool : AddBody(b)
  \/ \E v \in SoftFields : SoftSlider(v)
  \/ Clear
  \/ StepEnter(LongDt, 1, "api")
  \/ StepInside

SpecSoft == Init /\ [][NextSoft]_vars

\* the external forces a caller gives a body
ThrustFields == { << 1, 2 >> }

\* a caller sets b.fx_ext and b.fy_ext of a body of the simulation
SetForce(id, fx, fy) ==
  /\ pc = "idle"
  /\ id \in Ids(bodies)
  /\ bodies' = [ i \in 1..Len(bodies) |->
                  IF bodies[i].id = id
                  THEN [ bodies[i] EXCEPT !.fx_ext = fx, !.fy_ext = fy ]
                  ELSE bodies[i] ]
  /\ lastOp' = "force"
  /\ UNCHANGED << time, softening, mergeOnCollision, mergeEvents, newMergeEvents,
                  nextId, pool, pc, call, driverVars >>

\* a caller that gives its bodies external forces and makes one step() call
NextForce ==
  \/ \E a \in BodyInputs :
       NewBody(NameOf(nextId), a.x, a.y, a.vx, a.vy, a.mass, a.radius)
  \/ \E b \in pool : AddBody(b)
  \/ \E id \in 1..MaxId, f \in ThrustFields : SetForce(id, f[1], f[2])
  \/ StepEnter(LongDt, 1, "once")
  \/ StepInside

SpecForce == Init /\ [][NextForce]_vars

\* a caller that makes one step() call; a call that has started runs on to its return
NextOnce ==
  \/ \E a \in BodyInputs :
       NewBody(NameOf(nextId), a.x, a.y, a.vx, a.vy, a.mass, a.radius)
  \/ \E b \in pool : AddBody(b)
  \/ \E subs \in SubChoices : StepEnter(LongDt, subs, "once")
  \/ StepInside

\* weak fairness of the steps of a running call; for LeapfrogSub and MergeOne it is
\* written out, with their enabling conditions for ENABLED
SpecOnceFair ==
  /\ Init /\ [][NextOnce]_vars
  /\ WF_vars(StepTrails) /\ WF_vars(MergeDone) /\ WF_vars(StepExpire)
  /\ ([]<>~(pc = "leap" /\ call.s < call.subSteps) \/ []<><<LeapfrogSub>>_vars)
  /\ ([]<>~(pc = "merge" /\ OverlapPairs(bodies) # {}) \/ []<><<MergeOne>>_vars)

\* ---- callers that may hand addBody a body the collection already holds
\* the most entries these callers let the collection have
MaxBodies == 3

Held(bs) == { bs[i] : i \in 1..Len(bs) }

\* sim.addBody(b) for any Body object the caller has a reference to
AddHeld(b) ==
  /\ Len(bodies) < MaxBodies
  /\ AddBody(b)

\* sim.mergeOnCollision = v
SetMerge(v) ==
  /\ pc = "idle"
  /\ mergeOnCollision # v
  /\ mergeOnCollision' = v
  /\ lastOp' = "setMerge"
  /\ UNCHANGED << bodies, time, softening, mergeEvents, newMergeEvents,
                  nextId, pool, pc, call, driverVars >>

\* step: one iteration of "for (s < subSteps) this._leapfrogStep(h)"
LeapfrogSubShared ==
  /\ pc = "leap"
  /\ call.s < call.subSteps
  /\ bodies' = leapfrogStepShared(bodies, call.h, softening)
  /\ call' = [ call EXCEPT !.s = @ + 1 ]
  /\ lastOp' = "leapfrog"
  /\ UNCHANGED << time, softening, mergeOnCollision, mergeEvents, newMergeEvents,
                  nextId, pool, pc, driverVars >>

\* the bodies these callers construct: the ones at rest
RestInputs == { a \in BodyInputs : a.vx = 0 /\ a.vy = 0 }

StepInsideShared ==
  LeapfrogSubShared \/ StepTrails \/ MergeOne \/ MergeDone \/ StepExpire

NextShared ==
  \/ \E a \in RestInputs :
       NewBody(NameOf(nextId), a.x, a.y, a.vx, a.vy, a.mass, a.radius)
  \/ \E b \in pool \cup Held(bodies) : AddHeld(b)
  \/ \E id \in 1..MaxId : RemoveById(id)
  \/ Clear
  \/ StepEnter(LongDt, 1, "once")
  \/ StepInsideShared

SpecShared == Init /\ [][NextShared]_vars

\* the same callers, who also switch the merging of colliding bodies off and on
NextSharedFlag ==
  \/ \E a \in RestInputs :
       NewBody(NameOf(nextId), a.x, a.y, a.vx, a.vy, a.mass, a.radius)
  \/ \E b \in pool \cup Held(bodies) : AddHeld(b)
  \/ Clear
  \/ \E v \in BOOLEAN : SetMerge(v)
  \/ StepEnter(LongDt, 1, "once")
  \/ StepInsideShared

SpecSharedFlag == Init /\ [][NextSharedFlag]_vars

\* ================================================================ claims
\* ---- vocabulary of the claims
AnyReady(bs) == \E i \in 1..Len(bs) : bs[i].leapReady

\* positions and velocities, by body
Motion(bs) == [ i \in 1..Len(bs) |-> << bs[i].id, bs[i].x, bs[i].y, bs[i].vx, bs[i].vy >> ]

\* the reference stepper: one textbook kick-drift-kick sub-step of size h from the
\* positions and velocities of bs, with fresh accelerations
TextbookStep(bs, h, soft) ==
  LET n  == Len(bs)
      a0 == accumulateAccels(bs, soft)
      hv == Arr([ i \in 1..n |-> [ vx |-> bs[i].vx + HalfKick(a0[i].ax, h),
                                  vy |-> bs[i].vy + HalfKick(a0[i].ay, h) ] ])
      dr == Arr([ i \in 1..n |-> [ bs[i] EXCEPT !.x = @ + hv[i].vx * h, !.y = @ + hv[i].vy * h ] ])
      a1 == accumulateAccels(dr, soft)
  IN  Arr([ i \in 1..n |-> [ dr[i] EXCEPT !.vx = hv[i].vx + HalfKick(a1[i].ax, h),
                                         !.vy = hv[i].vy + HalfKick(a1[i].ay, h) ] ])

\* n textbook sub-steps
RECURSIVE TextbookSteps(_, _, _, _)
TextbookSteps(bs, h, soft, n) ==
  IF n = 0 THEN bs ELSE TextbookSteps(TextbookStep(bs, h, soft), h, soft, n - 1)

\* this step of the model is the entry of a step() call on a non-empty collection
IsStepEntry == pc = "idle" /\ pc' = "leap"

\* this step of the model is one _merge
IsMerge == pc = "merge" /\ Len(bodies') < Len(bodies)

TotalMass(bs) == Sum([ i \in 1..Len(bs) |-> bs[i].mass ], Len(bs))

\* the pair a merge step merges, and the body of the next state with a given id
MergedA == bodies[FirstOverlap(bodies)[1]]

MergedB == bodies[FirstOverlap(bodies)[2]]

After(id) == bodies'[CHOOSE i \in 1..Len(bodies') : bodies'[i].id = id]

\* ---- C1: right after addBody, removeById and each merge of a step, no body of the
\* collection is marked ready, so the next sub-step recomputes the accelerations.
C1_Invalidated ==
  lastOp \in { "addBody", "removeById", "merge" } => ~AnyReady(bodies)

\* a body that has been through a step (it has a trail) right after a removal
C1_Witness ==
  /\ lastOp = "removeById"
  /\ \E i \in 1..Len(bodies) : Len(bodies[i].trail) > 0

\* ---- C2: every step(dt, subSteps) call moves the bodies to the positions and
\* velocities that subSteps textbook kick-drift-kick sub-steps of size h reach from the
\* positions and velocities at the call.
C2_TextbookEquivalent ==
  [][ IsStepEntry =>
        Motion(LeapfrogSteps(bodies, call'.h, softening, call'.subSteps))
          = Motion(TextbookSteps(bodies, call'.h, softening, call'.subSteps)) ]_vars

\* ---- C3: a step() call that starts right after a kick or a velocity edit of the
\* selected body integrates from the changed velocity: it moves the bodies as the
\* textbook sub-steps do from the positions and the changed velocities.
C3_KickTakesEffect ==
  [][ ( /\ IsStepEntry
        /\ lastOp \in { "kick", "applyVel" }
        /\ selectedBody \in Ids(bodies)
        /\ ~AnyNonFinite(bodies) )
      => Motion(LeapfrogSteps(bodies, call'.h, softening, call'.subSteps))
           = Motion(TextbookSteps(bodies, call'.h, softening, call'.subSteps)) ]_vars

\* ---- C4: every step that takes a body out of the collection leaves no remaining
\* body marked ready.
C4_RemovalInvalidates ==
  [][ (Len(bodies') < Len(bodies)) => ~AnyReady(bodies') ]_vars

\* ---- C5: every body of the collection has a positive mass.
C5_MassPositive == \A i \in 1..Len(bodies) : bodies[i].mass > 0

\* ---- C6: at the end of every frame the selection is none or a body of the collection.
C6_SelectionLive ==
  lastOp = "loop" => (selectedBody = None \/ selectedBody \in Ids(bodies))

\* ---- C7: when step() has returned with merging enabled, no two bodies overlap.
C7_NoOverlapAfterStep ==
  (lastOp = "step" /\ mergeOnCollision) => OverlapPairs(bodies) = {}

\* a step that merged and left two bodies apart
C7_Witness ==
  /\ lastOp = "step"
  /\ Len(bodies) >= 2
  /\ Len(newMergeEvents) > 0
  /\ newMergeEvents[Len(newMergeEvents)].simTime = time

\* ---- C8: a merge gives the survivor the sum of the two masses, and no step of a
\* step() call changes the total mass of the collection.
C8_MassConserved ==
  [][ /\ (pc # "idle" => TotalMass(bodies') = TotalMass(bodies))
      /\ (IsMerge => After(Big(MergedA, MergedB).id).mass = MergedA.mass + MergedB.mass) ]_vars

\* a survivor of a merge of a mass 1 and a mass 2
C8_Witness == lastOp = "merge" /\ \E i \in 1..Len(bodies) : bodies[i].mass = 3

\* s.mass * got is target divided by s.mass, rounded to the grid
Rounded(mass, got, target) == 2 * Abs(mass * got - target) <= Abs(mass)

\* ---- C9: a merge gives the survivor finite position and velocity with mass times
\* velocity equal to the sum of the two momenta, and mass times position equal to the
\* sum of the two mass-weighted positions, up to the rounding of the division.
C9_MomentumConserved ==
  [][ IsMerge =>
      LET a == MergedA
          b == MergedB
          s == After(Big(a, b).id)
      IN  /\ ~s.nonFinite
          /\ Rounded(s.mass, s.vx, a.mass * a.vx + b.mass * b.vx)
          /\ Rounded(s.mass, s.vy, a.mass * a.vy + b.mass * b.vy)
          /\ Rounded(s.mass, s.x, a.mass * a.x + b.mass * b.x)
          /\ Rounded(s.mass, s.y, a.mass * a.y + b.mass * b.y) ]_vars

\* ---- C10 as stated: the survivor is the heavier body, and of two equal masses the
\* one with the lower id.
C10_LowerIdOnTie ==
  [][ IsMerge =>
      LET a == MergedA
          b == MergedB
          keep == IF a.mass > b.mass THEN a.id
                  ELSE IF b.mass > a.mass THEN b.id
                  ELSE IF a.id < b.id THEN a.id ELSE b.id
          gone == IF keep = a.id THEN b.id ELSE a.id
      IN  keep \in Ids(bodies') /\ gone \notin Ids(bodies') ]_vars

\* ---- C10 amended: the survivor is the heavier body, and of two equal masses the
\* one earlier in the collection; it keeps its id and name, the other is removed.
C10_EarlierOnTie ==
  [][ IsMerge =>
      LET a == MergedA
          b == MergedB
          keep == IF b.mass > a.mass THEN b ELSE a
          gone == IF b.mass > a.mass THEN a ELSE b
      IN  /\ keep.id \in Ids(bodies') /\ gone.id \notin Ids(bodies')
          /\ After(keep.id).name = keep.name
          /\ Len(bodies') = Len(bodies) - 1 ]_vars

\* two equal masses merged, the one with the higher id kept
C10_Witness ==
  /\ lastOp = "merge"
  /\ mergeEvents[Len(mergeEvents)].bigName = "B2"
  /\ mergeEvents[Len(mergeEvents)].smallName = "B1"
  /\ \E i \in 1..Len(bodies) : bodies[i].id = 2 /\ bodies[i].mass = 2

\* a step() call is running and has not returned
InStep == pc \in { "leap", "merge", "expire" }

Last(s) == s[Len(s)]

\* ---- C11: a merge appends one and the same event to mergeEvents and to
\* newMergeEvents, with the survivor's new position, the current time and the two
\* names, and takes one body out; no other step of a step() call changes the number of
\* bodies or newMergeEvents, so a call appends as many events as it removes bodies.
C11_OneEventPerMerge ==
  [][ /\ IsMerge =>
          LET a  == MergedA
              b  == MergedB
              ev == Last(newMergeEvents')
          IN  /\ Len(newMergeEvents') = Len(newMergeEvents) + 1
              /\ newMergeEvents' = Append(newMergeEvents, ev)
              /\ mergeEvents' = Append(mergeEvents, ev)
              /\ Len(bodies') = Len(bodies) - 1
              /\ ev.simTime = time
              /\ ev.x = After(Big(a, b).id).x /\ ev.y = After(Big(a, b).id).y
              /\ ev.bigName = Big(a, b).name /\ ev.smallName = Small(a, b).name
      /\ (InStep /\ ~IsMerge) =>
          (Len(bodies') = Len(bodies) /\ newMergeEvents' = newMergeEvents) ]_vars

\* the second merge of one step() call
C11_Witness ==
  /\ lastOp = "merge"
  /\ Len(newMergeEvents) >= 2
  /\ newMergeEvents[Len(newMergeEvents) - 1].simTime = time
  /\ Last(newMergeEvents).simTime = time

IsPrefix(s, u) == Len(s) <= Len(u) /\ SubSeq(u, 1, Len(s)) = s

\* ---- C12: whatever the engine does except clear(), the queue of new events keeps every
\* event it holds, in order, and only has events appended after them; the pruning at
\* the end of step() takes events out of mergeEvents and leaves newMergeEvents alone.
C12_NewEventsOnlyGrow ==
  [][ /\ lastOp' # "clear" => IsPrefix(newMergeEvents, newMergeEvents')
      /\ pc = "expire" => newMergeEvents' = newMergeEvents ]_vars

\* a step() has returned after pruning the log, and the pruned event is still queued
C12_Witness ==
  /\ lastOp = "step"
  /\ Len(newMergeEvents) > Len(mergeEvents)
  /\ time - newMergeEvents[1].simTime >= Retention

\* ---- C13: between calls of step(), every event in mergeEvents is younger than the
\* retention window: time - e.simTime < Retention.
C13_LogRetention ==
  pc = "idle" => \A k \in 1..Len(mergeEvents) : time - mergeEvents[k].simTime < Retention

\* a step() has returned with an older event pruned and a younger one of an earlier
\* step kept
C13_Witness ==
  /\ lastOp = "step" /\ pc = "idle"
  /\ \E k \in 1..Len(mergeEvents) : mergeEvents[k].simTime < time
  /\ \E k \in 1..Len(newMergeEvents) : time - newMergeEvents[k].simTime >= Retention

\* ---- C14: step() called with no bodies returns at once and leaves bodies, time,
\* mergeEvents, newMergeEvents, softening and mergeOnCollision as they were, however
\* often it is called.
C14_EmptyStepNoOp ==
  [][ (pc = "idle" /\ Len(bodies) = 0 /\ lastOp' = "step") =>
        (UNCHANGED simVars /\ pc' = "idle") ]_vars

\* step() has returned on a simulation emptied after it ran and merged
C14_Witness ==
  /\ lastOp = "step"
  /\ Len(bodies) = 0
  /\ time > 0
  /\ Len(newMergeEvents) > 0

\* ---- C15: the time never decreases over the operations of the engine, and step() is
\* the only operation that changes it.
C15_OnlyStepChangesTime ==
  [][ time' >= time /\ (time' # time => lastOp' = "trails") ]_vars

\* ---- C15, amended: the time never decreases over addBody, removeById and step(), and
\* only two operations change it: step() advances it and clear() sets it to 0.
C15_StepAdvancesClearResets ==
  [][ /\ lastOp' # "clear" => time' >= time
      /\ lastOp' = "clear" => time' = 0
      /\ time' # time => lastOp' \in { "trails", "clear" } ]_vars

\* the second step() of a simulation has advanced the time
C15_Witness ==
  /\ lastOp = "trails"
  /\ time > call.dt

IdSeq(bs) == [ i \in 1..Len(bs) |-> bs[i].id ]

Trails(bs) == [ i \in 1..Len(bs) |-> bs[i].trail ]

EventsUnchanged == mergeEvents' = mergeEvents /\ newMergeEvents' = newMergeEvents

\* ---- C17: within one step() call the sub-steps leave the collection, the event queues
\* and the trails as they are; the trails are sampled once, after the last sub-step,
\* each by at most one sample; events and removals come only from the merges, which run
\* after the last sub-step, the sampling and the advance of the time; nothing after the
\* sampling adds a sample.
C17_OncePerCall ==
  [][ /\ (pc = "leap" /\ lastOp' = "leapfrog") =>
          /\ IdSeq(bodies') = IdSeq(bodies)
          /\ Trails(bodies') = Trails(bodies)
          /\ EventsUnchanged
      /\ (pc = "leap" /\ lastOp' = "trails") =>
          /\ call.s = call.subSteps
          /\ IdSeq(bodies') = IdSeq(bodies)
          /\ EventsUnchanged
          /\ \A i \in 1..Len(bodies) :
                LET old == bodies[i].trail
                    new == Append(old, [ x |-> bodies[i].x, y |-> bodies[i].y ])
                IN  bodies'[i].trail \in { old, new, Tail(new) }
      /\ (InStep /\ (IdSeq(bodies') # IdSeq(bodies) \/ ~EventsUnchanged)) =>
          /\ pc = "merge" /\ lastOp \in { "trails", "merge" }
          /\ call.s = call.subSteps
      /\ pc \in { "merge", "expire" } =>
          \A i \in 1..Len(bodies') :
            \/ bodies'[i].trail = << >>
            \/ \E k \in 1..Len(bodies) :
                 bodies[k].id = bodies'[i].id /\ bodies[k].trail = bodies'[i].trail ]_vars

\* the first merge of a step() of two sub-steps, with the sample of the call in the
\* trail of a body that is not in the merge
C17_Witness ==
  /\ lastOp = "merge"
  /\ call.subSteps = 2
  /\ Len(newMergeEvents) = 1
  /\ \E i \in 1..Len(bodies) : Len(bodies[i].trail) = 1

\* new is the trail of b as it was or, b's trail being full, with its oldest sample
\* dropped and the position of b behind the others
FifoPush(b, new) ==
  LET old == b.trail
  IN  (Len(old) = MaxTrailLength /\ new # old) =>
        (/\ Len(new) = MaxTrailLength
         /\ SubSeq(new, 1, MaxTrailLength - 1) = SubSeq(old, 2, MaxTrailLength)
         /\ new[MaxTrailLength] = [ x |-> b.x, y |-> b.y ])

\* ---- C18: no trail is ever longer than maxTrailLength; a sample recorded on a full
\* trail drops the oldest sample and goes behind the others, which keep their order; and
\* the survivor of a merge comes out of it with an empty trail.
C18_TrailsBoundedFifo ==
  /\ [](\A i \in 1..Len(bodies) : Len(bodies[i].trail) <= MaxTrailLength)
  /\ [][ /\ (pc = "leap" /\ lastOp' = "trails") =>
              (\A i \in 1..Len(bodies) : FifoPush(bodies[i], bodies'[i].trail))
         /\ IsMerge => After(Big(MergedA, MergedB).id).trail = << >> ]_vars

\* the third sample of a moving body has pushed its first one out of the trail
C18_Witness ==
  /\ lastOp = "trails"
  /\ time = (MaxTrailLength + 1) * LongDt
  /\ \E i \in 1..Len(bodies) :
       LET b == bodies[i]
       IN  /\ b.vx # 0
           /\ b.trail = << [ x |-> b.x - b.vx * LongDt, y |-> b.y ], [ x |-> b.x, y |-> b.y ] >>

\* the bodies of bs without the one of this id, in their order
Without(bs, id) == Filter(bs, { k \in 1..Len(bs) : bs[k].id # id })

\* what the callers of the engine see of the bodies
Visible(bs) ==
  [ i \in 1..Len(bs) |->
      << bs[i].id, bs[i].name, bs[i].x, bs[i].y, bs[i].vx, bs[i].vy, bs[i].mass,
         bs[i].radius, bs[i].trail >> ]

\* ---- C19: removeById(id) takes out the body of that id and leaves the others as they
\* were, in their order; with no body of that id it leaves the bodies, the time and both
\* queues as they were, and every step() call that follows moves the bodies as it would
\* have moved them without the removeById.
C19_RemoveAbsentIsNoOp ==
  [][ lastOp' = "removeById" =>
        /\ time' = time /\ EventsUnchanged
        /\ IdSeq(bodies') # IdSeq(bodies) =>
              \E id \in Ids(bodies) : Visible(bodies') = Visible(Without(bodies, id))
        /\ IdSeq(bodies') = IdSeq(bodies) =>
              /\ Visible(bodies') = Visible(bodies)
              /\ \A dt \in DtChoices, subs \in SubChoices :
                    Motion(LeapfrogSteps(bodies', RDiv(dt, subs), softening, subs))
                      = Motion(LeapfrogSteps(bodies, RDiv(dt, subs), softening, subs)) ]_vars

\* ---- C20: clear() leaves no body and no event in either queue and the time at 0, and
\* keeps the softening and mergeOnCollision it found (maxTrailLength is the definition
\* MaxTrailLength, which no operation changes).
C20_ClearResetsRunState ==
  [][ lastOp' = "clear" =>
        /\ bodies' = << >> /\ mergeEvents' = << >> /\ newMergeEvents' = << >>
        /\ time' = 0
        /\ softening' = softening /\ mergeOnCollision' = mergeOnCollision ]_vars

\* clear() has run on a simulation whose softening was changed, and kept it
C20_Witness ==
  /\ lastOp = "clear"
  /\ softening # RDiv(AU, 100)
  /\ nextId > 1

\* the bodies of bs that have an external force
Thrusting(bs) == { i \in 1..Len(bs) : bs[i].fx_ext # 0 \/ bs[i].fy_ext # 0 }

\* the mass-weighted accelerations of acc add up to the external forces, up to the
\* rounding of the one division f / mass of each body that has a force
Balanced(acc) ==
  LET n     == Len(acc)
      sumX  == Sum([ i \in 1..n |-> acc[i].mass * acc[i].ax ], n)
      sumY  == Sum([ i \in 1..n |-> acc[i].mass * acc[i].ay ], n)
      extX  == Sum([ i \in 1..n |-> acc[i].fx_ext ], n)
      extY  == Sum([ i \in 1..n |-> acc[i].fy_ext ], n)
      slack == Sum([ i \in 1..n |-> IF i \in Thrusting(acc) THEN Abs(acc[i].mass) ELSE 0 ], n)
  IN  /\ 2 * Abs(sumX - extX) <= slack
      /\ 2 * Abs(sumY - extY) <= slack

R2(a, b, soft) == (b.x - a.x) * (b.x - a.x) + (b.y - a.y) * (b.y - a.y) + soft * soft

\* _accumulateAccels gives the body at i a finite acceleration: no pair term and no
\* external-force term of it is built from a non-finite value or a division by zero
FiniteAccel(bs, i) ==
  bs[i].nonFinite => (Len(bs) = 1 /\ i \notin Thrusting(bs))

\* ---- C22: in every reachable state the softening is positive and the softened squared
\* distance of every pair of bodies is a number that is at least softening^2, and every
\* acceleration a sub-step has computed is finite.
C22_SofteningGuards ==
  /\ softening > 0
  /\ \A i, j \in 1..Len(bodies) :
       i < j => /\ ~bodies[i].nonFinite /\ ~bodies[j].nonFinite
                /\ R2(bodies[i], bodies[j], softening) >= softening * softening
  /\ lastOp = "leapfrog" => \A i \in 1..Len(bodies) : FiniteAccel(bodies, i)

\* ---- C23: every pass of the loop of _handleMerges that merges takes the number of
\* bodies down and leaves at least one, so a call with n bodies merges at most n - 1
\* times; the loop ends on a scan that finds no overlap, it always ends, and every
\* step() call returns.
C23_MergeLoopTerminates ==
  /\ [][ /\ (pc = "merge" /\ lastOp' = "merge") =>
              (Len(bodies') < Len(bodies) /\ Len(bodies') >= 1)
         /\ (pc = "merge" /\ pc' # "merge") =>
              (pc' = "expire" /\ OverlapPairs(bodies) = {} /\ bodies' = bodies) ]_vars
  /\ (pc = "merge") ~> (pc = "expire")
  /\ (pc # "idle") ~> (pc = "idle")

\* the loop has ended after as many merges as three bodies allow
C23_Witness ==
  /\ lastOp = "mergeDone"
  /\ Len(bodies) = 1
  /\ Len(newMergeEvents) = 2

\* ---- C24, C25: which bodies the collection holds
\* no Body object is held twice: the entries have pairwise different ids
Distinct(bs) == \A i, j \in 1..Len(bs) : i < j => bs[i].id # bs[j].id

\* this step is one _merge of _handleMerges
IsMergeStep == pc = "merge" /\ lastOp' = "merge"

\* this step is an addBody of a body the collection already holds
AddsHeld == lastOp' = "addBody" /\ Last(bodies').id \in Ids(bodies)

\* this step belongs to a step() call
IsStepMove == pc # "idle" \/ pc' # "idle"

\* what a _merge does to the collection: one entry fewer, the survivor stays, the
\* other body goes
RemovesTheSmall ==
  LET p == FirstOverlap(bodies)
      a == bodies[p[1]]
      b == bodies[p[2]]
  IN  /\ Len(bodies') = Len(bodies) - 1
      /\ Big(a, b).id \in Ids(bodies')
      /\ Small(a, b).id \notin Ids(bodies')

\* C24 as stated: after any sequence of addBody, removeById, step and clear calls the
\* bodies of the collection are pairwise distinct, with pairwise distinct ids, and a
\* merge removes exactly one entry, the non-survivor, never the survivor.
C24_AlwaysDistinct ==
  /\ [](Distinct(bodies))
  /\ [][IsMergeStep => RemovesTheSmall]_vars

\* C24, amended: an operation other than an addBody of a body the collection already
\* holds leaves a collection of pairwise distinct bodies pairwise distinct, and in
\* such a collection a merge removes exactly one entry, the non-survivor, never the
\* survivor.
C24_DistinctUnlessAddedTwice ==
  /\ [][(Distinct(bodies) /\ ~AddsHeld) => Distinct(bodies')]_vars
  /\ [][(Distinct(bodies) /\ IsMergeStep) => RemovesTheSmall]_vars

\* a merge has taken one of three different bodies away
C24_Witness == lastOp = "merge" /\ Len(bodies) = 2 /\ Distinct(bodies)

\* what no step of a step() call does, whatever the collection: add an entry or a
\* body, or, with mergeOnCollision off, change the sequence of bodies or emit an event
StepAddsNothing ==
  /\ Ids(bodies') \subseteq Ids(bodies)
  /\ Len(bodies') <= Len(bodies)
  /\ ~mergeOnCollision => /\ IdSeq(bodies') = IdSeq(bodies)
                          /\ newMergeEvents' = newMergeEvents
                          /\ Len(mergeEvents') <= Len(mergeEvents)

\* C25 as stated: a step never creates bodies and never empties a non-empty
\* simulation; every body afterwards was there before; with mergeOnCollision false the
\* collection is the same sequence of bodies and no merge event is emitted.
C25_StepKeepsSome ==
  [][IsStepMove => (StepAddsNothing /\ (Len(bodies) >= 1 => Len(bodies') >= 1))]_vars

\* C25, amended: as stated, but a step is only sure to leave a body in a collection
\* of pairwise distinct bodies.
C25_StepKeepsSomeOfDistinct ==
  [][IsStepMove =>
       (StepAddsNothing /\ ((Len(bodies) >= 1 /\ Distinct(bodies)) => Len(bodies') >= 1))]_vars

\* a step with mergeOnCollision off has returned and left two overlapping bodies
C25_Witness ==
  /\ lastOp = "step" /\ ~mergeOnCollision
  /\ Distinct(bodies) /\ OverlapPairs(bodies) # {}

\* the two models of _leapfrogStep agree on a collection of different bodies
SharedAgrees ==
  [][(pc = "leap" /\ lastOp' = "leapfrog" /\ Distinct(bodies))
       => bodies' = leapfrogStep(bodies, call.h, softening)]_vars

====
